---- MODULE Spec2Model ----
(***************************************************************************)
(* A model of rust-swissdata: the download cache (tools::Downloader), both *)
(* as whole calls and statement by statement; the archive resolver and     *)
(* loader (fso/communes Datastore::load) with the transcoding of the       *)
(* members; the row decoder (Dataset iteration through csv + serde) for    *)
(* one and for several consumers; the date codec (tools/internal/serde);   *)
(* and Translated (tools/message).                                         *)
(***************************************************************************)
EXTENDS Integers, Sequences, FiniteSets, TLC

VARIABLES
    \* the download cache: the file at each cache path, whether the cache
    \* directory exists, the clock, and the last call with what it returned
    fs, cacheDir, now, last,
    \* the date codec: the input string, the parse result, the re-encoded
    \* string and the position in parse-then-format
    dateIn, dateParsed, dateOut, datePc,
    \* one enumerated field: its type, the integer on the wire, the result
    enumKind, enumCode, enumRes,
    \* one Dataset: its record type and its owned text (lines of fields), and
    \* the iterator a caller holds over it
    dsType, dsRaw, it,
    \* Datastore::load: the body the server holds for the data URL and what
    \* the last load returned
    server, loadRes,
    \* the iterators several consumers hold over the one Dataset
    its,
    \* a cache_get taken step by step (where it stands, the response body it
    \* is copying) and where it stood when the last other call was made
    writer, obs,
    \* one Translated: the pairs it was collected from, the value, and the
    \* answer of the last lookup
    trIn, tr, trGot

cacheVars == <<fs, cacheDir, now, last>>
dateVars == <<dateIn, dateParsed, dateOut, datePc>>
enumVars == <<enumKind, enumCode, enumRes>>
decodeVars == <<dsType, dsRaw, it>>
loadVars == <<server, loadRes>>
shareVars == <<its>>
stepVars == <<writer, obs>>
trVars == <<trIn, tr, trGot>>
vars == <<cacheVars, dateVars, enumVars, decodeVars, loadVars, shareVars, stepVars, trVars>>

\* what each component's steps leave alone
NotCache == <<dateVars, enumVars, decodeVars, loadVars, shareVars, stepVars, trVars>>
NotDate == <<cacheVars, enumVars, decodeVars, loadVars, shareVars, stepVars, trVars>>
NotEnum == <<cacheVars, dateVars, decodeVars, loadVars, shareVars, stepVars, trVars>>
NotDecode == <<cacheVars, dateVars, enumVars, loadVars, shareVars, stepVars, trVars>>
NotLoad == <<dateVars, enumVars, decodeVars, shareVars, stepVars, trVars>>
NotStore == <<dateVars, enumVars, it, stepVars, trVars>>
NotStep == <<dateVars, enumVars, decodeVars, loadVars, shareVars, trVars>>
NotTranslated == <<cacheVars, dateVars, enumVars, decodeVars, loadVars, shareVars, stepVars>>

(***************************************************************************)
(* Results: Rust's Result<T, E>.                                           *)
(***************************************************************************)
Ok(v) == [ok |-> TRUE, val |-> v]
Err(e) == [ok |-> FALSE, err |-> e]

(***************************************************************************)
(* Bounds of the model.                                                    *)
(***************************************************************************)
MaxBody == 2
MaxDays == 1

\* FSO asset id for the TXT format, and Asset::url_data of it
TXT_ASSET_ID == 23886071
url_data(id) == <<"https://dam-api.bfs.admin.ch/hub/api/dam/assets/", id, "/master">>
DataUrl == url_data(TXT_ASSET_ID)

Urls == {DataUrl}
Bytes == {0, 1}

RECURSIVE SeqsUpTo(_, _)
SeqsUpTo(S, n) ==
    IF n = 0 THEN {<<>>}
    ELSE LET shorter == SeqsUpTo(S, n - 1)
         IN shorter \cup {Append(s, x) : s \in {q \in shorter : Len(q) = n - 1}, x \in S}

Bodies == SeqsUpTo(Bytes, MaxBody)

(***************************************************************************)
(* The downloader (src/src/tools.rs).                                      *)
(***************************************************************************)
\* Duration::new(60 * 60 * 24, 0), in seconds
default_validity == 60 * 60 * 24

\* The instants the clock is sampled at: around every multiple of the
\* validity window.
Instants == {t \in {k * default_validity + e : k \in 0..MaxDays, e \in {-1, 0, 1}} : t >= 0}

Missing == [kind |-> "missing", mtime |-> 0, content |-> <<>>]
Dir == [kind |-> "dir", mtime |-> 0, content |-> <<>>]
RegularFile(t, c) == [kind |-> "file", mtime |-> t, content |-> c]

\* cache_path: {cache dir}/rust-swissdata/{urlencoded url}
cache_path(url) == <<"rust-swissdata", url>>
Paths == {cache_path(u) : u \in Urls}

\* Path::is_file: false for a missing path and for a directory
is_file(fsv, p) == fsv[p].kind = "file"

\* Path::metadata()?.modified()?: an error when the path does not exist
modified(fsv, p) ==
    IF fsv[p].kind = "missing" THEN Err("NotFound") ELSE Ok(fsv[p].mtime)

is_valid_eager(fsv, t, p) ==
    LET m == modified(fsv, p)
    IN IF ~m.ok THEN Err(m.err)
       ELSE Ok(is_file(fsv, p) /\ m.val + default_validity > t)

\* is_valid: is_file() && modified + default_validity > now, the right
\* operand evaluated only for a regular file
is_valid(fsv, t, p) ==
    IF ~is_file(fsv, p) THEN Ok(FALSE)
    ELSE LET m == modified(fsv, p)
         IN IF ~m.ok THEN Err(m.err)
            ELSE Ok(m.val + default_validity > t)

\* File::create without truncation: the bytes beyond the new ones stay
create_keep(old) == old

\* File::create on an existing regular file truncates it to length 0
create_truncate(old) == <<>>

\* io::copy writing the first k bytes of body over the file's content from
\* offset 0
write_at_start(content, body, k) ==
    [i \in 1..(IF k > Len(content) THEN k ELSE Len(content)) |->
        IF i <= k THEN body[i] ELSE content[i]]

\* The environment of one cache_get call: whether create_dir_all succeeds,
\* what http_get returns, whether File::create succeeds, and after how many
\* bytes io::copy fails (-1: it does not).
HttpOutcomes == {Err("transport")} \cup {Ok(b) : b \in Bodies}
CacheEnvs ==
    {e \in [mkdir : BOOLEAN, http : HttpOutcomes, create : BOOLEAN, copyFail : -1..MaxBody] :
        /\ (~e.http.ok => e.create /\ e.copyFail = -1)
        /\ (e.http.ok => e.copyFail <= Len(e.http.val))
        /\ (~e.create => e.copyFail = -1)}

Outcome(fsv, dirv, res, fail, http) ==
    [fs |-> fsv, dir |-> dirv, res |-> res, fail |-> fail, http |-> http]

cache_get_always(fsv, dirv, t, url, e) ==
    LET p == cache_path(url)
        b == e.http.val
    IN IF ~e.http.ok THEN Outcome(fsv, TRUE, Err(e.http.err), "http", 1)
       ELSE Outcome([fsv EXCEPT ![p] = RegularFile(t, b)], TRUE, Ok(p), "none", 1)

\* cache_get that creates the file before it sends the request
cache_get_create_first(fsv, dirv, t, url, e) ==
    LET p == cache_path(url)
    IN IF ~dirv /\ ~e.mkdir THEN Outcome(fsv, dirv, Err("create_dir_all"), "cache_path", 0)
       ELSE LET v == is_valid(fsv, t, p)
            IN IF ~v.ok THEN Outcome(fsv, TRUE, Err(v.err), "is_valid", 0)
               ELSE IF v.val THEN Outcome(fsv, TRUE, Ok(p), "none", 0)
               ELSE IF fsv[p].kind = "dir" \/ ~e.create
                    THEN Outcome(fsv, TRUE, Err("File::create"), "create", 0)
               ELSE LET created == [fsv EXCEPT ![p] = RegularFile(t, <<>>)]
                    IN IF ~e.http.ok
                       THEN Outcome(created, TRUE, Err(e.http.err), "http", 1)
                       ELSE Outcome([fsv EXCEPT ![p] = RegularFile(t, e.http.val)], TRUE,
                                    Ok(p), "none", 1)

\* Downloader::cache_get
cache_get(fsv, dirv, t, url, e) ==
    LET p == cache_path(url)
    IN IF ~dirv /\ ~e.mkdir THEN Outcome(fsv, dirv, Err("create_dir_all"), "cache_path", 0)
       ELSE LET v == is_valid(fsv, t, p)
            IN IF ~v.ok THEN Outcome(fsv, TRUE, Err(v.err), "is_valid", 0)
               ELSE IF v.val THEN Outcome(fsv, TRUE, Ok(p), "none", 0)
               ELSE IF ~e.http.ok THEN Outcome(fsv, TRUE, Err(e.http.err), "http", 1)
               ELSE IF fsv[p].kind = "dir" \/ ~e.create
                    THEN Outcome(fsv, TRUE, Err("File::create"), "create", 1)
               ELSE LET body == e.http.val
                        k == IF e.copyFail = -1 THEN Len(body) ELSE e.copyFail
                        written == write_at_start(create_truncate(fsv[p].content), body, k)
                        fs2 == [fsv EXCEPT ![p] = RegularFile(t, written)]
                    IN IF e.copyFail = -1
                       THEN Outcome(fs2, TRUE, Ok(p), "none", 1)
                       ELSE Outcome(fs2, TRUE, Err("io::copy"), "copy", 1)

NoCall ==
    [op |-> "none", url |-> <<>>, res |-> Ok(TRUE), pre |-> Missing, at |-> 0,
     http |-> 0, fail |-> "none", body |-> <<>>]

OldContents == {<<0, 0>>, <<1, 0, 1>>}

InitCache ==
    /\ now = 0
    /\ cacheDir \in BOOLEAN
    /\ fs \in [Paths -> {Missing, Dir} \cup {RegularFile(0, c) : c \in OldContents}]
    /\ (~cacheDir => \A p \in Paths : fs[p] = Missing)
    /\ last = NoCall

\* Time passes.
Tick ==
    /\ \E t \in Instants : t > now /\ now' = t
    /\ UNCHANGED <<fs, cacheDir, last, NotCache>>

\* A call of Downloader::is_valid on a cache path.
IsValid(u) ==
    /\ last' = [op |-> "is_valid", url |-> u, res |-> is_valid(fs, now, cache_path(u)),
                pre |-> fs[cache_path(u)], at |-> now, http |-> 0, fail |-> "none",
                body |-> <<>>]
    /\ UNCHANGED <<fs, cacheDir, now, NotCache>>

\* A call of Downloader::cache_get.
CacheGet(u, e) ==
    LET o == cache_get(fs, cacheDir, now, u, e)
    IN /\ fs' = o.fs
       /\ cacheDir' = o.dir
       /\ last' = [op |-> "cache_get", url |-> u, res |-> o.res, pre |-> fs[cache_path(u)],
                   at |-> now, http |-> o.http, fail |-> o.fail,
                   body |-> IF e.http.ok /\ o.http = 1 THEN e.http.val ELSE <<>>]
       /\ UNCHANGED <<now, NotCache>>

NextCache ==
    \/ Tick
    \/ \E u \in Urls : IsValid(u)
    \/ \E u \in Urls, e \in CacheEnvs : CacheGet(u, e)

(***************************************************************************)
(* The date codec (src/src/tools/internal/serde.rs): strings are sequences *)
(* of characters; Date is chrono::NaiveDate, parsed and formatted with the *)
(* format "%d.%m.%Y".                                                      *)
(***************************************************************************)
Digits == {"0", "1", "2", "3", "4", "5", "6", "7", "8", "9"}
DigitChars == <<"0", "1", "2", "3", "4", "5", "6", "7", "8", "9">>
DigitVal(c) == (CHOOSE i \in 1..10 : DigitChars[i] = c) - 1

Drop(s, n) == SubSeq(s, n + 1, Len(s))
StartsWith(s, c) == Len(s) > 0 /\ s[1] = c

RECURSIVE trim_start(_)
trim_start(s) == IF StartsWith(s, " ") THEN trim_start(Tail(s)) ELSE s

RECURSIVE LeadingDigits(_, _)
LeadingDigits(s, max) ==
    IF max = 0 \/ Len(s) = 0 \/ s[1] \notin Digits THEN 0
    ELSE 1 + LeadingDigits(Tail(s), max - 1)

RECURSIVE DecimalValue(_)
DecimalValue(s) ==
    IF Len(s) = 0 THEN 0
    ELSE 10 * DecimalValue(SubSeq(s, 1, Len(s) - 1)) + DigitVal(s[Len(s)])

\* chrono's scan::number: between min and max leading digits
scan_number(s, min, max) ==
    LET n == LeadingDigits(s, max)
    IN IF Len(s) < min THEN Err("TooShort")
       ELSE IF n < min THEN Err("Invalid")
       ELSE Ok([v |-> DecimalValue(SubSeq(s, 1, n)), rest |-> Drop(s, n)])

\* a literal item of the format: the input must continue with it
scan_literal(s, c) ==
    IF Len(s) < 1 THEN Err("TooShort")
    ELSE IF s[1] # c THEN Err("Invalid")
    ELSE Ok(Tail(s))

\* chrono's numeric item without sign (%d, %m): blanks skipped, then one to
\* `width` digits
scan_unsigned(s, width) == scan_number(trim_start(s), 1, width)

\* chrono's %Y: blanks skipped; after an explicit sign any number of digits,
\* without one, one to four digits
scan_year(s0) ==
    LET s == trim_start(s0)
    IN IF StartsWith(s, "-")
       THEN LET r == scan_number(Tail(s), 1, Len(s))
            IN IF r.ok THEN Ok([v |-> 0 - r.val.v, rest |-> r.val.rest]) ELSE r
       ELSE IF StartsWith(s, "+") THEN scan_number(Tail(s), 1, Len(s))
       ELSE scan_number(s, 1, 4)

IsLeap(y) == (y % 4 = 0 /\ y % 100 # 0) \/ y % 400 = 0
DaysInMonth(y, m) ==
    IF m \in {4, 6, 9, 11} THEN 30
    ELSE IF m = 2 THEN (IF IsLeap(y) THEN 29 ELSE 28)
    ELSE 31

\* NaiveDate::from_ymd_opt
from_ymd(y, m, d) ==
    IF m \in 1..12 /\ d >= 1 /\ d <= DaysInMonth(y, m)
    THEN Ok([year |-> y, month |-> m, day |-> d])
    ELSE Err("OutOfRange")

\* Date::parse_from_str(s, "%d.%m.%Y")
parse_from_str(s) ==
    LET d == scan_unsigned(s, 2)
    IN IF ~d.ok THEN d ELSE
       LET p1 == scan_literal(d.val.rest, ".")
       IN IF ~p1.ok THEN p1 ELSE
          LET m == scan_unsigned(p1.val, 2)
          IN IF ~m.ok THEN m ELSE
             LET p2 == scan_literal(m.val.rest, ".")
             IN IF ~p2.ok THEN p2 ELSE
                LET y == scan_year(p2.val)
                IN IF ~y.ok THEN y
                   ELSE IF Len(y.val.rest) > 0 THEN Err("TooLong")
                   ELSE from_ymd(y.val.v, m.val.v, d.val.v)

RECURSIVE ToDigits(_)
ToDigits(n) ==
    IF n < 10 THEN <<DigitChars[n + 1]>>
    ELSE Append(ToDigits(n \div 10), DigitChars[(n % 10) + 1])

RECURSIVE ZeroPad(_, _)
ZeroPad(s, width) == IF Len(s) >= width THEN s ELSE ZeroPad(<<"0">> \o s, width)

\* date.format("%d.%m.%Y"): two digits, two digits, and the year on four
\* digits, or signed on at least four outside 0..9999
format_date(date) ==
    LET y == date.year
        year == IF y \in 0..9999 THEN ZeroPad(ToDigits(y), 4)
                ELSE IF y < 0 THEN <<"-">> \o ZeroPad(ToDigits(0 - y), 4)
                ELSE <<"+">> \o ZeroPad(ToDigits(y), 4)
    IN ZeroPad(ToDigits(date.day), 2) \o <<".">> \o ZeroPad(ToDigits(date.month), 2)
           \o <<".">> \o year

\* date_dd_mm_yyyyy_dotted::deserialize: the field as a String, then parsed
date_deserialize(field) == parse_from_str(field)

\* option_date_dd_mm_yyyyy_dotted::deserialize: Option<String> is None for
\* an empty field; a present string is parsed
option_date_deserialize(field) ==
    IF Len(field) = 0 THEN Ok([some |-> FALSE])
    ELSE LET r == parse_from_str(field)
         IN IF r.ok THEN Ok([some |-> TRUE, v |-> r.val]) ELSE r

\* The date strings tried: a day, a separator, a month, a separator, a year
\* and what follows, each from a pool holding the well-formed and the
\* malformed.
DayStrs == {<<"0", "1">>, <<"1">>, <<"3", "1">>, <<"2", "9">>, <<"3", "2">>, <<" ", "1">>, <<>>}
MonthStrs == {<<"0", "1">>, <<"1">>, <<"0", "2">>, <<"1", "2">>, <<"1", "3">>}
YearStrs == {<<"2", "0", "0", "0">>, <<"2", "0", "0", "1">>, <<"2", "0", "0">>,
             <<"2", "0", "0", "0", "0">>, <<"+", "2", "0", "0", "0">>}
SepStrs == {<<".">>, <<"-">>}
TrailStrs == {<<>>, <<" ">>}
DateStrs ==
    {d \o s1 \o m \o s2 \o y \o t :
        d \in DayStrs, s1 \in SepStrs, m \in MonthStrs, s2 \in SepStrs,
        y \in YearStrs, t \in TrailStrs}

NoDate == Err("none")

InitDate ==
    /\ dateIn \in DateStrs
    /\ dateParsed = NoDate
    /\ dateOut = <<>>
    /\ datePc = "input"

IdleDate ==
    /\ dateIn = <<>>
    /\ dateParsed = NoDate
    /\ dateOut = <<>>
    /\ datePc = "idle"

\* The decoder reads the field.
ParseDate ==
    /\ datePc = "input"
    /\ dateParsed' = date_deserialize(dateIn)
    /\ datePc' = "parsed"
    /\ UNCHANGED <<dateIn, dateOut, NotDate>>

\* The encoder writes the parsed date back.
FormatDate ==
    /\ datePc = "parsed"
    /\ dateParsed.ok
    /\ dateOut' = format_date(dateParsed.val)
    /\ datePc' = "formatted"
    /\ UNCHANGED <<dateIn, dateParsed, NotDate>>

NextDate == ParseDate \/ FormatDate

(***************************************************************************)
(* Integers and enumerated fields (src/src/fso/communes.rs, decoded with   *)
(* csv's deserializer and serde_repr).                                     *)
(***************************************************************************)
MaxCode == 300

HexChars == <<"0", "1", "2", "3", "4", "5", "6", "7", "8", "9",
              "a", "b", "c", "d", "e", "f", "A", "B", "C", "D", "E", "F">>
HexDigits == {HexChars[i] : i \in 1..22}
HexVal(c) ==
    LET i == CHOOSE j \in 1..22 : HexChars[j] = c
    IN IF i <= 16 THEN i - 1 ELSE i - 7

RECURSIVE HexValue(_)
HexValue(s) ==
    IF Len(s) = 0 THEN 0
    ELSE 16 * HexValue(SubSeq(s, 1, Len(s) - 1)) + HexVal(s[Len(s)])

AllIn(s, S) == \A i \in 1..Len(s) : s[i] \in S

ParseIntError == [kind |-> "ParseInt", value |-> 0]

RECURSIVE StripZeros(_)
StripZeros(s) == IF Len(s) > 1 /\ s[1] = "0" THEN StripZeros(Tail(s)) ELSE s

\* whether the decimal number a is greater than the decimal number b, both
\* without leading zeros (the numbers of a u32 do not all fit the checker's
\* integers, so they are compared as written)
RECURSIVE DecimalGreater(_, _)
DecimalGreater(a, b) ==
    IF Len(a) # Len(b) THEN Len(a) > Len(b)
    ELSE IF Len(a) = 0 THEN FALSE
    ELSE IF a[1] # b[1] THEN DigitVal(a[1]) > DigitVal(b[1])
    ELSE DecimalGreater(Tail(a), Tail(b))

\* u8::MAX, u16::MAX and u32::MAX as written in decimal
MaxDecimal(bits) ==
    IF bits = 8 THEN <<"2", "5", "5">>
    ELSE IF bits = 16 THEN <<"6", "5", "5", "3", "5">>
    ELSE <<"4", "2", "9", "4", "9", "6", "7", "2", "9", "5">>

\* csv's integer field: "0x" and hexadecimal digits, else Rust's from_str
\* (an optional '+', then decimal digits); a value beyond the type's width
\* is an error
parse_uint(field, bits) ==
    LET hex == Len(field) >= 2 /\ field[1] = "0" /\ field[2] = "x"
        digits == IF hex THEN Drop(field, 2) ELSE field
        body == IF StartsWith(digits, "+") THEN Tail(digits) ELSE digits
    IN IF Len(body) = 0 THEN Err(ParseIntError)
       ELSE IF hex
            THEN IF ~AllIn(body, HexDigits) \/ 4 * Len(StripZeros(body)) > bits
                 THEN Err(ParseIntError)
                 ELSE Ok(HexValue(body))
       ELSE IF ~AllIn(body, Digits) \/ DecimalGreater(StripZeros(body), MaxDecimal(bits))
            THEN Err(ParseIntError)
            ELSE Ok(DecimalValue(body))

\* The enumerations with their discriminants (#[repr(u8)]).
Status == {<<"Tentative", 0>>, <<"Final", 1>>}
MunicipalityMode ==
    {<<"PoliticalCommune", 11>>, <<"MunicipalityFreeArea", 12>>, <<"CantonalLakePortion", 13>>}
DistrictMode ==
    {<<"District", 15>>, <<"CantonWithoutDistricts", 16>>, <<"DistrictFreeArea", 17>>}
AdmissionMode ==
    {<<"FirstRegistration", 20>>, <<"Creation", 21>>, <<"DistrictNameChange", 22>>,
     <<"MunicipalityNameChange", 23>>, <<"AttachmentToAnother", 24>>,
     <<"TerritoryMunicipalityChange", 26>>, <<"FormalRenumbering", 27>>}
\* the abolition modes as a copy of the admission modes
AbolitionModeAsAdmission == AdmissionMode
AbolitionMode ==
    {<<"DistrictNameChange", 22>>, <<"MunicipalityNameChange", 23>>,
     <<"AttachmentToAnother", 24>>, <<"TerritoryMunicipalityChange", 26>>,
     <<"FormalRenumbering", 27>>, <<"Radiation", 29>>, <<"MutationAnnulled", 30>>}

EnumKinds == {"Status", "MunicipalityMode", "DistrictMode", "AdmissionMode", "AbolitionMode"}
EnumOf(kind) ==
    CASE kind = "Status" -> Status
      [] kind = "MunicipalityMode" -> MunicipalityMode
      [] kind = "DistrictMode" -> DistrictMode
      [] kind = "AdmissionMode" -> AdmissionMode
      [] kind = "AbolitionMode" -> AbolitionMode

\* Deserialize_repr: the field as a u8, then the variant with that
\* discriminant, or an "invalid value" error
repr_deserialize(kind, field) ==
    LET n == parse_uint(field, 8)
    IN IF ~n.ok THEN n
       ELSE IF \E e \in EnumOf(kind) : e[2] = n.val
            THEN Ok((CHOOSE e \in EnumOf(kind) : e[2] = n.val)[1])
            ELSE Err([kind |-> "InvalidValue", value |-> n.val])

\* An integer as written on the wire, in decimal.
IntField(n) == IF n < 0 THEN <<"-">> \o ToDigits(0 - n) ELSE ToDigits(n)

EnumCodes == (0 - 2)..MaxCode
NoEnum == Err([kind |-> "none", value |-> 0])

InitEnum ==
    /\ enumKind \in EnumKinds
    /\ enumCode \in EnumCodes
    /\ enumRes = NoEnum

IdleEnum ==
    /\ enumKind = "Status"
    /\ enumCode = 0
    /\ enumRes = NoEnum

\* An enumerated field holding the integer is decoded.
DecodeEnum ==
    /\ enumRes = NoEnum
    /\ enumRes' = repr_deserialize(enumKind, IntField(enumCode))
    /\ UNCHANGED <<enumKind, enumCode, NotEnum>>

NextEnum == DecodeEnum


(***************************************************************************)
(* Records and the Dataset iterator (src/src/fso/communes.rs): a Dataset   *)
(* owns the text of one archive member; into_iter builds a csv reader over *)
(* it (tab-delimited, no quoting, no header row) whose items are the rows  *)
(* deserialized field by field, in declared order, into T.                 *)
(***************************************************************************)
MaxRows == 2

RecordTypes == {"Canton", "District", "Municipality"}

\* The declared fields of each record type, in order.
FieldNames(T) ==
    CASE T = "Canton" -> <<"id", "abbreviation", "name", "date_of_change">>
      [] T = "District" ->
            <<"hist_id", "canton_id", "id", "name", "short_name", "entry_mode",
              "admission_number", "admission_mode", "admission_date",
              "abolition_number", "abolition_mode", "abolition_date", "date_of_change">>
      [] T = "Municipality" ->
            <<"hist_id", "district_hist_id", "canton_abbreviation", "id", "name",
              "short_name", "entry_mode", "status", "admission_number", "admission_mode",
              "admission_date", "abolition_number", "abolition_mode", "abolition_date",
              "date_of_change">>

FieldTypes(T) ==
    CASE T = "Canton" -> <<"u8", "String", "String", "Date">>
      [] T = "District" ->
            <<"u32", "u8", "u16", "String", "String", "DistrictMode",
              "u16", "AdmissionMode", "Date",
              "Option_u16", "Option_AbolitionMode", "Option_Date", "Date">>
      [] T = "Municipality" ->
            <<"u32", "u32", "String", "u16", "String",
              "String", "MunicipalityMode", "Status", "u16", "AdmissionMode",
              "Date", "Option_u16", "Option_AbolitionMode", "Option_Date",
              "Date">>

NFields(T) == Len(FieldTypes(T))

None == [some |-> FALSE]
Some(x) == [some |-> TRUE, v |-> x]

\* csv's deserialize_option: an empty field is None, any other is Some of
\* the inner type's parse
option_deserialize(r, field) ==
    IF Len(field) = 0 THEN Ok(None)
    ELSE IF r.ok THEN Ok(Some(r.val)) ELSE r

DateError == [kind |-> "Date", value |-> 0]

\* One field deserialized as its declared type.
field_deserialize(type, field) ==
    CASE type = "u8" -> parse_uint(field, 8)
      [] type = "u16" -> parse_uint(field, 16)
      [] type = "u32" -> parse_uint(field, 32)
      [] type = "String" -> Ok(field)
      [] type \in EnumKinds -> repr_deserialize(type, field)
      [] type = "Date" ->
            IF date_deserialize(field).ok THEN date_deserialize(field) ELSE Err(DateError)
      [] type = "Option_u16" -> option_deserialize(parse_uint(field, 16), field)
      [] type = "Option_AbolitionMode" ->
            option_deserialize(repr_deserialize("AbolitionMode", field), field)
      [] type = "Option_Date" ->
            IF option_date_deserialize(field).ok THEN option_date_deserialize(field)
            ELSE Err(DateError)

\* The derived Deserialize of a struct read as a sequence: the fields one
\* after the other; a row that ends before the last declared field is an
\* "invalid length" error, the first field that fails to parse ends the row
\* with its error, and fields beyond the last declared one are not read.
RECURSIVE visit_seq(_, _, _, _)
visit_seq(T, row, i, acc) ==
    IF i > NFields(T) THEN Ok(acc)
    ELSE IF i > Len(row)
         THEN Err([kind |-> "InvalidLength", value |-> Len(row), field |-> i])
    ELSE LET r == field_deserialize(FieldTypes(T)[i], row[i])
         IN IF ~r.ok
            THEN Err([kind |-> r.err.kind, value |-> r.err.value, field |-> i])
            ELSE visit_seq(T, row, i + 1, Append(acc, r.val))

deserialize_record(T, row) == visit_seq(T, row, 1, <<>>)

\* The value of a named field of a decoded record.
Field(T, rec, name) == rec[CHOOSE i \in 1..NFields(T) : FieldNames(T)[i] = name]

\* Mutation { number, mode, date }
Mutation(number, mode, date) == [number |-> number, mode |-> mode, date |-> date]

\* District::admission and Municipality::admission
admission(T, rec) ==
    Mutation(Field(T, rec, "admission_number"), Field(T, rec, "admission_mode"),
             Field(T, rec, "admission_date"))

\* District::abolition and Municipality::abolition: each of the three
\* fields through `?`, so None as soon as one of them is None
abolition(T, rec) ==
    LET number == Field(T, rec, "abolition_number")
        mode == Field(T, rec, "abolition_mode")
        date == Field(T, rec, "abolition_date")
    IN IF ~number.some THEN None
       ELSE IF ~mode.some THEN None
       ELSE IF ~date.some THEN None
       ELSE Some(Mutation(number.v, mode.v, date.v))

\* The iterator into_iter returns: the next line to read, the field count
\* of the first record read (0: none read yet; the reader is not flexible),
\* the items yielded so far, each with the line it came from, and whether
\* next() has returned None.
NoIter == [active |-> FALSE, pos |-> 1, first |-> 0, out |-> <<>>, done |-> FALSE]
into_iter == [active |-> TRUE, pos |-> 1, first |-> 0, out |-> <<>>, done |-> FALSE]

\* the index of the first non-empty line at or after pos, or past the end
RECURSIVE SkipEmpty(_, _)
SkipEmpty(raw, pos) ==
    IF pos > Len(raw) \/ Len(raw[pos]) > 0 THEN pos ELSE SkipEmpty(raw, pos + 1)

\* next() that reports the index of the record, counted from 0, as its line
iter_next_record_index(T, raw, i) ==
    LET line == SkipEmpty(raw, i.pos)
    IN IF line > Len(raw) THEN [i EXCEPT !.pos = line, !.done = TRUE]
       ELSE LET row == raw[line]
                item ==
                    IF i.first # 0 /\ Len(row) # i.first
                    THEN Err([kind |-> "UnequalLengths", value |-> Len(row), field |-> 0])
                    ELSE deserialize_record(T, row)
            IN [i EXCEPT !.pos = line + 1,
                         !.first = IF i.first = 0 THEN Len(row) ELSE i.first,
                         !.out = Append(i.out, [line |-> Len(i.out), res |-> item])]

\* DeserializeRecordsIntoIter::next: read the next record (empty lines are
\* skipped), compare its length with the first record's, deserialize it.
iter_next(T, raw, i) ==
    LET line == SkipEmpty(raw, i.pos)
    IN IF line > Len(raw) THEN [i EXCEPT !.pos = line, !.done = TRUE]
       ELSE LET row == raw[line]
                item ==
                    IF i.first # 0 /\ Len(row) # i.first
                    THEN Err([kind |-> "UnequalLengths", value |-> Len(row), field |-> 0])
                    ELSE deserialize_record(T, row)
            IN [i EXCEPT !.pos = line + 1,
                         !.first = IF i.first = 0 THEN Len(row) ELSE i.first,
                         !.out = Append(i.out, [line |-> line, res |-> item])]

\* The rows tried, well-formed and malformed.
TextZz == <<"Z", "z">>
Date2000 == <<"0", "1", ".", "0", "1", ".", "2", "0", "0", "0">>
Date2009 == <<"3", "1", ".", "1", "2", ".", "2", "0", "0", "9">>
DateIso == <<"2", "0", "0", "0", "-", "0", "1", "-", "0", "1">>

CantonRow == <<IntField(1), <<"Z", "Z">>, TextZz, Date2000>>
DistrictRow ==
    <<IntField(100), IntField(1), IntField(10), TextZz, TextZz, IntField(15),
      IntField(1), IntField(20), Date2000, <<>>, <<>>, <<>>, Date2000>>
MunicipalityRow ==
    <<IntField(1000), IntField(100), <<"Z", "Z">>, IntField(10), TextZz, TextZz,
      IntField(11), IntField(1), IntField(1), IntField(20), Date2000,
      <<>>, <<>>, <<>>, Date2000>>

BaseRow(T) ==
    CASE T = "Canton" -> CantonRow
      [] T = "District" -> DistrictRow
      [] T = "Municipality" -> MunicipalityRow

IndexOf(T, name) == CHOOSE i \in 1..NFields(T) : FieldNames(T)[i] = name
With(T, row, name, field) == [row EXCEPT ![IndexOf(T, name)] = field]

\* the abolition columns of a row set to the three fields
WithAbolition(T, row, number, mode, date) ==
    With(T, With(T, With(T, row, "abolition_number", number), "abolition_mode", mode),
         "abolition_date", date)

WrongCountRows(T) ==
    {SubSeq(BaseRow(T), 1, NFields(T) - 1), Append(BaseRow(T), <<"x">>), <<>>}

HistoryRows(T) ==
    {BaseRow(T),
     WithAbolition(T, BaseRow(T), IntField(2), IntField(29), Date2009),
     WithAbolition(T, BaseRow(T), IntField(2), <<>>, <<>>),
     WithAbolition(T, BaseRow(T), IntField(2), IntField(29), <<>>),
     WithAbolition(T, BaseRow(T), <<>>, <<>>, Date2009),
     WithAbolition(T, BaseRow(T), IntField(2), IntField(20), Date2009),
     With(T, BaseRow(T), "entry_mode", IntField(99)),
     With(T, BaseRow(T), "admission_date", DateIso)}

RowPool(T) ==
    IF T = "Canton"
    THEN {CantonRow, With(T, CantonRow, "id", IntField(256)),
          With(T, CantonRow, "date_of_change", DateIso)} \cup WrongCountRows(T)
    ELSE HistoryRows(T) \cup WrongCountRows(T)

InitDecode ==
    /\ dsType \in RecordTypes
    /\ dsRaw \in UNION {[1..n -> RowPool(dsType)] : n \in 0..MaxRows}
    /\ it = NoIter

IdleDecode ==
    /\ dsType = "Canton"
    /\ dsRaw = <<>>
    /\ it = NoIter

\* (&dataset).into_iter(): a fresh iterator over the owned text.
IntoIter ==
    /\ it' = into_iter
    /\ UNCHANGED <<dsType, dsRaw, NotDecode>>

\* next() on the iterator.
IterNext ==
    /\ it.active
    /\ ~it.done
    /\ it' = iter_next(dsType, dsRaw, it)
    /\ UNCHANGED <<dsType, dsRaw, NotDecode>>

NextDecode == IntoIter \/ IterNext

(***************************************************************************)
(* The text of an archive member: its bytes transcoded from ISO-8859-3     *)
(* (encoding_rs through DecodeReaderBytes) into the String a Dataset owns, *)
(* and that String as the csv reader cuts it into records and fields.      *)
(***************************************************************************)
ByteValues == 0..255

\* U+FFFD REPLACEMENT CHARACTER
REPLACEMENT == 65533

\* the bytes ISO-8859-3 assigns no character to
Unassigned == {165, 174, 190, 195, 208, 227, 240}

\* the bytes of ISO-8859-3 whose character is not the one of the same number
Iso3Table ==
    {
     <<161, 294>>, <<162, 728>>, <<166, 292>>, <<169, 304>>, <<170, 350>>, <<171, 286>>,
     <<172, 308>>, <<175, 379>>, <<177, 295>>, <<182, 293>>, <<185, 305>>, <<186, 351>>,
     <<187, 287>>, <<188, 309>>, <<191, 380>>, <<197, 266>>, <<198, 264>>, <<213, 288>>,
     <<216, 284>>, <<221, 364>>, <<222, 348>>, <<229, 267>>, <<230, 265>>, <<245, 289>>,
     <<248, 285>>, <<253, 365>>, <<254, 349>>, <<255, 729>>
    }

\* a decoder that has no character for an unassigned byte
iso_8859_3_strict(b) ==
    IF b \in Unassigned THEN 0 - 1
    ELSE IF \E e \in Iso3Table : e[1] = b THEN (CHOOSE e \in Iso3Table : e[1] = b)[2]
    ELSE b

\* ISO_8859_3 decoding of one byte, to a code point: the replacement
\* character for an unassigned byte
iso_8859_3(b) ==
    IF b \in Unassigned THEN REPLACEMENT
    ELSE IF \E e \in Iso3Table : e[1] = b THEN (CHOOSE e \in Iso3Table : e[1] = b)[2]
    ELSE b

\* DecodeReaderBytes with the encoding set: every byte through the decoder
transcode(bytes) == [i \in 1..Len(bytes) |-> iso_8859_3(bytes[i])]

\* a Unicode scalar value, what a String can hold
IsScalar(cp) == cp >= 0 /\ cp <= 1114111 /\ ~(cp >= 55296 /\ cp <= 57343)

\* Read::read_to_string on the decoding reader: the text, or InvalidData
\* when what is read is not valid UTF-8
read_to_string(bytes) ==
    LET text == transcode(bytes)
    IN IF \A i \in 1..Len(text) : IsScalar(text[i]) THEN Ok(text)
       ELSE Err("InvalidData")

\* The printable ASCII characters, from U+0020 on (the grave accent under
\* its number).
AsciiPrintable ==
    <<
      " ", "!", "\"", "#", "$", "%", "&", "'", "(", ")", "*", "+",
      ",", "-", ".", "/", "0", "1", "2", "3", "4", "5", "6", "7",
      "8", "9", ":", ";", "<", "=", ">", "?", "@", "A", "B", "C",
      "D", "E", "F", "G", "H", "I", "J", "K", "L", "M", "N", "O",
      "P", "Q", "R", "S", "T", "U", "V", "W", "X", "Y", "Z", "[",
      "\\", "]", "^", "_", "U+96", "a", "b", "c", "d", "e", "f", "g",
      "h", "i", "j", "k", "l", "m", "n", "o", "p", "q", "r", "s",
      "t", "u", "v", "w", "x", "y", "z", "{", "|", "}", "~"
    >>

\* the character of a code point, as the field parsers spell characters
Chr(cp) ==
    IF cp >= 32 /\ cp <= 126 THEN AsciiPrintable[cp - 31] ELSE "U+" \o ToString(cp)

\* the byte of a printable ASCII character
Ord(c) == 31 + (CHOOSE i \in 1..Len(AsciiPrintable) : AsciiPrintable[i] = c)

TAB == 9
LF == 10
CR == 13

\* the index of the first x in text at or after i, or Len(text) + 1
RECURSIVE Find(_, _, _)
Find(text, x, i) ==
    IF i > Len(text) \/ text[i] = x THEN i ELSE Find(text, x, i + 1)

\* one line cut at the tabs into fields of characters; a line of no
\* character is a record of no field
RECURSIVE csv_fields(_, _)
csv_fields(line, i) ==
    LET j == Find(line, TAB, i)
        field == [k \in 1..(j - i) |-> Chr(line[i + k - 1])]
    IN IF j > Len(line) THEN <<field>> ELSE <<field>> \o csv_fields(line, j + 1)

\* the text cut into lines at LF, a CR before the LF dropped
\* (Terminator::CRLF), and what follows the last LF a line if not empty
RECURSIVE csv_lines(_, _)
csv_lines(text, i) ==
    IF i > Len(text) THEN <<>>
    ELSE LET j == Find(text, LF, i)
             end == IF j > i /\ j <= Len(text) /\ text[j - 1] = CR THEN j - 2 ELSE j - 1
             line == SubSeq(text, i, end)
         IN <<IF Len(line) = 0 THEN <<>> ELSE csv_fields(line, 1)>> \o csv_lines(text, j + 1)

\* the records the csv reader finds in a Dataset's text, line by line
csv_records(text) == csv_lines(text, 1)

\* A row written out as a member holds it: the fields joined by tabs, the
\* line ended by CR LF.
RECURSIVE RowBytes(_)
RowBytes(row) ==
    IF Len(row) = 0 THEN <<CR, LF>>
    ELSE [k \in 1..Len(row[1]) |-> Ord(row[1][k])]
         \o (IF Len(row) = 1 THEN <<CR, LF>> ELSE <<TAB>> \o RowBytes(Tail(row)))

RECURSIVE RowsBytes(_)
RowsBytes(rows) ==
    IF Len(rows) = 0 THEN <<>> ELSE RowBytes(Head(rows)) \o RowsBytes(Tail(rows))

(***************************************************************************)
(* Datastore::load (src/src/fso/communes.rs): the data file through the    *)
(* cache, the archive opened, its member names resolved to entity codes,   *)
(* and the members KT, BEZ and GDE read into Datasets.                     *)
(***************************************************************************)
MaxMembers == 3

TXT_FSO_ID == "dz-b-00.04-hgv-01"
RequiredCodes == <<"KT", "BEZ", "GDE">>

\* Member names, as sequences of pieces: the underscore and the fixed
\* prefix, segment and suffix are pieces of their own.
ConventionName(code) ==
    <<TXT_FSO_ID, "/1.2/", "20240101", "_", "GDEHist", "_", code, ".txt">>
NamePool ==
    {ConventionName("KT"), ConventionName("BEZ"), ConventionName("GDE"),
     <<TXT_FSO_ID, "/1.2/", "20230101", "_", "GDEHist", "_", "KT", ".txt">>,
     <<TXT_FSO_ID, "/1.2/", "GDEHist", "_", "KT", ".txt">>,
     <<TXT_FSO_ID, "/1.2/", "01", "_", "01", "_", "2024", "_", "GDE", ".txt">>,
     <<"dz-b-00.04-hgv-03", "/1.2/", "20240101", "_", "GDEHist", "_", "KT", ".txt">>,
     <<TXT_FSO_ID, "/1.3/", "20240101", "_", "GDEHist", "_", "BEZ", ".txt">>,
     <<TXT_FSO_ID, "/1.2/", "20240101", "_", "GDEHist", "_", "GDE", ".pdf">>}

\* str::strip_prefix and str::strip_suffix on a name: None when the name
\* does not start (end) with the piece
strip_prefix(name, piece) ==
    IF Len(name) > 0 /\ name[1] = piece THEN Some(Tail(name)) ELSE None
strip_suffix(name, piece) ==
    IF Len(name) > 0 /\ name[Len(name)] = piece
    THEN Some(SubSeq(name, 1, Len(name) - 1)) ELSE None

\* str::split('_'): the segments between the underscores
RECURSIVE split_underscore(_)
split_underscore(stem) ==
    IF \A i \in 1..Len(stem) : stem[i] # "_" THEN <<stem>>
    ELSE LET i == CHOOSE j \in 1..Len(stem) :
                    stem[j] = "_" /\ \A k \in 1..(j - 1) : stem[k] # "_"
         IN <<SubSeq(stem, 1, i - 1)>> \o split_underscore(Drop(stem, i))

\* nth counted from 1
nth_from_one(segments, n) == IF Len(segments) >= n /\ n >= 1 THEN Some(segments[n]) ELSE None

\* Iterator::nth(n), counted from 0
nth(segments, n) == IF Len(segments) > n THEN Some(segments[n + 1]) ELSE None

\* the key the filter_map closure gives a member name, or None
entity_code(name) ==
    LET a == strip_prefix(name, TXT_FSO_ID)
    IN IF ~a.some THEN None ELSE
       LET b == strip_prefix(a.v, "/1.2/")
       IN IF ~b.some THEN None ELSE
          LET c == strip_suffix(b.v, ".txt")
          IN IF ~c.some THEN None ELSE nth(split_underscore(c.v), 2)

\* zippath: the names collected into a HashMap under their keys, a member
\* with no key left out.  Of two names with one key the one file_names gives
\* last is kept; the order of file_names is not specified, so zippath is any
\* of the maps that keep one name per key.
zippath(names) ==
    LET keys == {entity_code(n).v : n \in {m \in names : entity_code(m).some}}
    IN {map \in [keys -> names] : \A k \in keys : entity_code(map[k]) = Some(k)}

\* HashMap::get on zippath
zippath_get(map, code) ==
    IF <<code>> \in DOMAIN map THEN Some(map[<<code>>]) ELSE None

\* An error of load: the step it comes from, the entity code being read (""
\* before any) and the message.
LoadErr(stage, code, msg) == Err([stage |-> stage, code |-> code, msg |-> msg])

\* the message zip_to_dataset gives ok_or
MissingMember(code) == <<"Missing", "cantons", "file", "in", "archive">>

\* zip_to_dataset(zippath, zip, fname): the member looked up, opened by
\* name, read to the end through the decoding reader and owned by a Dataset;
\* `unreadable` is the code whose member the environment fails to read, if
\* any
zip_to_dataset(map, data, code, unreadable) ==
    LET fname == zippath_get(map, code)
    IN IF ~fname.some THEN LoadErr("lookup", code, MissingMember(code))
       ELSE IF unreadable = code THEN LoadErr("read", code, <<"zip">>)
       ELSE LET output == read_to_string(data[fname.v])
            IN IF ~output.ok THEN LoadErr("read", code, <<output.err>>)
               ELSE Ok([member |-> fname.v, raw |-> output.val])

\* The body of a response: one piece that is an archive with its member
\* names and the bytes of each member, or a piece that is no archive.
ZipBody(names, data) == <<[zip |-> TRUE, names |-> names, data |-> data]>>
NotZipBody == <<[zip |-> FALSE, names |-> {}, data |-> [n \in {} |-> <<>>]]>>

\* ZipArchive::new(file): an error unless the file holds a whole archive
ZipArchive_new(content) ==
    IF Len(content) = 1 /\ content[1].zip THEN Ok(content[1])
    ELSE Err("InvalidArchive")

\* The environment of one load: that of its cache_get, whether File::open
\* succeeds, and the code whose member cannot be read ("none": all can).
LoadEnvs ==
    [cache : {e \in [mkdir : {TRUE}, http : {Err("transport"), Ok(server)},
                     create : BOOLEAN, copyFail : {-1, 0}] :
                  /\ (~e.http.ok => e.create /\ e.copyFail = -1)
                  /\ (~e.create => e.copyFail = -1)},
     open : BOOLEAN,
     unreadable : {"none", "KT", "BEZ", "GDE"}]

\* a load that hands over the members read before the first failure
load_members_partial(map, data, e) ==
    LET kt == zip_to_dataset(map, data, "KT", e.unreadable)
        bez == zip_to_dataset(map, data, "BEZ", e.unreadable)
        gde == zip_to_dataset(map, data, "GDE", e.unreadable)
    IN IF ~kt.ok THEN kt
       ELSE IF ~bez.ok THEN Ok([cantons |-> kt.val])
       ELSE IF ~gde.ok THEN Ok([cantons |-> kt.val, districts |-> bez.val])
       ELSE Ok([cantons |-> kt.val, districts |-> bez.val, municipalities |-> gde.val])

\* Datastore::load once zippath is built
load_members(map, data, e) ==
    LET kt == zip_to_dataset(map, data, "KT", e.unreadable)
        bez == zip_to_dataset(map, data, "BEZ", e.unreadable)
        gde == zip_to_dataset(map, data, "GDE", e.unreadable)
    IN IF ~kt.ok THEN kt
       ELSE IF ~bez.ok THEN bez
       ELSE IF ~gde.ok THEN gde
       ELSE Ok([cantons |-> kt.val, districts |-> bez.val, municipalities |-> gde.val])

\* Datastore::load after data_file returned the path: what it may return
load_archive(content, e) ==
    IF ~e.open THEN {LoadErr("open", "", <<"File::open">>)}
    ELSE LET zip == ZipArchive_new(content)
         IN IF ~zip.ok THEN {LoadErr("zip", "", <<zip.err>>)}
            ELSE {load_members(map, zip.val.data, e) : map \in zippath(zip.val.names)}

\* the sets of up to n elements of S
SubsetsUpTo(S, n) == {A \in SUBSET S : Cardinality(A) <= n}

Archives == SubsetsUpTo(NamePool, MaxMembers)

\* the archive of the three members named by the convention
ConventionArchive == {ConventionName("KT"), ConventionName("BEZ"), ConventionName("GDE")}

\* The bytes of the members: one row of its record type for a member whose
\* name ends in an entity code, and for the cantons also every byte value
\* alone, between two tabs, and after an unassigned byte.
OneRow(name) ==
    CASE name[Len(name) - 1] = "KT" -> RowBytes(CantonRow)
      [] name[Len(name) - 1] = "BEZ" -> RowBytes(DistrictRow)
      [] name[Len(name) - 1] = "GDE" -> RowBytes(MunicipalityRow)

OneRowEach(names) == [n \in names |-> OneRow(n)]

BytePool ==
    {<<b>> : b \in ByteValues} \cup {<<TAB, b, TAB>> : b \in ByteValues}
        \cup {<<165, b>> : b \in ByteValues}

ByteBodies ==
    {ZipBody(ConventionArchive,
             [OneRowEach(ConventionArchive) EXCEPT ![ConventionName("KT")] = bytes]) :
        bytes \in BytePool}

NoLoad == LoadErr("none", "", <<>>)

InitLoad ==
    /\ server \in {ZipBody(a, OneRowEach(a)) : a \in Archives} \cup ByteBodies
                     \cup {NotZipBody}
    /\ loadRes = NoLoad
    /\ now = 0
    /\ cacheDir \in BOOLEAN
    /\ fs = [p \in Paths |-> Missing]
    /\ last = NoCall

IdleLoad ==
    /\ server = NotZipBody
    /\ loadRes = NoLoad

\* A call of Datastore::load with a downloader.
Load(e) ==
    LET o == cache_get(fs, cacheDir, now, DataUrl, e.cache)
    IN /\ fs' = o.fs
       /\ cacheDir' = o.dir
       /\ last' = [op |-> "cache_get", url |-> DataUrl, res |-> o.res,
                   pre |-> fs[cache_path(DataUrl)], at |-> now, http |-> o.http,
                   fail |-> o.fail,
                   body |-> IF e.cache.http.ok /\ o.http = 1 THEN e.cache.http.val ELSE <<>>]
       /\ loadRes' \in IF ~o.res.ok THEN {LoadErr("download", "", <<o.res.err>>)}
                       ELSE load_archive(o.fs[o.res.val].content, e)
       /\ UNCHANGED <<now, server, NotLoad>>

NextLoad == \E e \in LoadEnvs : Load(e)

(***************************************************************************)
(* A loaded store and its consumers: a Dataset of the Datasets a load      *)
(* returned, and the iterators several consumers hold over it.             *)
(***************************************************************************)
MaxConsumers == 2

Consumers == 1..MaxConsumers

\* the field of Datasets that holds the Dataset<T>
DatasetOf(store, T) ==
    CASE T = "Canton" -> store.cantons
      [] T = "District" -> store.districts
      [] T = "Municipality" -> store.municipalities

\* The municipalities members tried: one row, three rows of which the third
\* (or the first) carries entry mode 99, and two rows and an empty line.
SecondRow == With("Municipality", MunicipalityRow, "hist_id", IntField(1001))
BadModeRow == With("Municipality", SecondRow, "entry_mode", IntField(99))
MunicipalityTexts ==
    {<<MunicipalityRow>>,
     <<MunicipalityRow, SecondRow, BadModeRow>>,
     <<BadModeRow, MunicipalityRow, SecondRow>>,
     <<MunicipalityRow, <<>>, SecondRow>>}

StoreBody(rows) ==
    ZipBody(ConventionArchive,
            [OneRowEach(ConventionArchive) EXCEPT ![ConventionName("GDE")] = RowsBytes(rows)])

NoIters == [c \in Consumers |-> NoIter]

IdleShare == its = NoIters

InitStore ==
    /\ server \in {StoreBody(rows) : rows \in MunicipalityTexts}
    /\ loadRes = NoLoad
    /\ now = 0
    /\ cacheDir \in BOOLEAN
    /\ fs = [p \in Paths |-> Missing]
    /\ last = NoCall
    /\ dsType = "Canton"
    /\ dsRaw = <<>>
    /\ its = NoIters

\* A Dataset of the store the last load returned is taken by the caller.
Take(T) ==
    /\ loadRes.ok
    /\ dsType' = T
    /\ dsRaw' = csv_records(DatasetOf(loadRes.val, T).raw)
    /\ its' = NoIters
    /\ UNCHANGED <<cacheVars, loadVars, NotStore>>

\* next() on a reader that all the iterators share
advance_shared(i, c) ==
    LET n == iter_next(dsType, dsRaw, i[c])
    IN [d \in DOMAIN i |-> IF d = c THEN n ELSE [i[d] EXCEPT !.pos = n.pos]]

\* next() on the iterator of consumer c: its own reader over the text
advance(i, c) == [i EXCEPT ![c] = iter_next(dsType, dsRaw, i[c])]

\* Consumer c asks the taken Dataset for an iterator.
NewIter(c) ==
    /\ Len(dsRaw) > 0
    /\ its' = [its EXCEPT ![c] = into_iter]
    /\ UNCHANGED <<dsType, dsRaw, cacheVars, loadVars, NotStore>>

\* Consumer c calls next() on its iterator.
Advance(c) ==
    /\ its[c].active
    /\ ~its[c].done
    /\ its' = advance(its, c)
    /\ UNCHANGED <<dsType, dsRaw, cacheVars, loadVars, NotStore>>

NextStore ==
    \/ \E e \in LoadEnvs : Load(e)
    \/ \E T \in RecordTypes : Take(T)
    \/ \E c \in Consumers : NewIter(c)
    \/ \E c \in Consumers : Advance(c)

(***************************************************************************)
(* Downloader::cache_get taken one statement at a time by one caller,      *)
(* while other callers call is_valid and cache_get on the same path.       *)
(***************************************************************************)
\* the bytes a descriptor at offset k writes into a file: the byte lands at
\* position k + 1, whatever the file holds by then (a gap reads as zeros)
write_at(content, k, byte) ==
    [i \in 1..(IF k + 1 > Len(content) THEN k + 1 ELSE Len(content)) |->
        IF i = k + 1 THEN byte ELSE IF i <= Len(content) THEN content[i] ELSE 0]

NoWriter == [pc |-> "idle", body |-> <<>>, written |-> 0, res |-> Err("none")]
NoObs == [op |-> "none", res |-> Ok(FALSE), http |-> 0, partial |-> FALSE]

WriterUrl == DataUrl
WriterPath == cache_path(WriterUrl)

\* the file at the cache path is being written: created, not all bytes of
\* the response body copied yet
HalfWritten == writer.pc = "copy" /\ writer.written < Len(writer.body)

InitStep ==
    /\ InitCache
    /\ writer = NoWriter
    /\ obs = NoObs

IdleStep ==
    /\ writer = NoWriter
    /\ obs = NoObs

Returned(res) == [pc |-> "done", body |-> <<>>, written |-> 0, res |-> res]

\* cache_get, lines 33-35: cache_path (create_dir_all) and is_valid
WCheck(mkdir) ==
    /\ writer.pc = "idle"
    /\ IF ~cacheDir /\ ~mkdir
       THEN writer' = Returned(Err("create_dir_all")) /\ UNCHANGED cacheDir
       ELSE /\ cacheDir' = TRUE
            /\ LET v == is_valid(fs, now, WriterPath)
               IN writer' = IF ~v.ok THEN Returned(Err(v.err))
                            ELSE IF v.val THEN Returned(Ok(WriterPath))
                            ELSE [writer EXCEPT !.pc = "get"]
    /\ UNCHANGED <<fs, now, last, obs, NotStep>>

\* line 36: http_get
WGet(http) ==
    /\ writer.pc = "get"
    /\ writer' = IF ~http.ok THEN Returned(Err(http.err))
                 ELSE [writer EXCEPT !.pc = "create", !.body = http.val]
    /\ UNCHANGED <<fs, cacheDir, now, last, obs, NotStep>>

\* line 37: File::create at the cache path
WCreate(create) ==
    /\ writer.pc = "create"
    /\ IF fs[WriterPath].kind = "dir" \/ ~create
       THEN writer' = Returned(Err("File::create")) /\ UNCHANGED fs
       ELSE /\ fs' = [fs EXCEPT ![WriterPath] =
                          RegularFile(now, create_truncate(fs[WriterPath].content))]
            /\ writer' = [writer EXCEPT !.pc = "copy", !.written = 0]
    /\ UNCHANGED <<cacheDir, now, last, obs, NotStep>>

\* line 38: io::copy, one byte of the body at a time; it may fail
WCopy(fail) ==
    /\ writer.pc = "copy"
    /\ writer.written < Len(writer.body)
    /\ IF fail
       THEN writer' = Returned(Err("io::copy")) /\ UNCHANGED fs
       ELSE /\ fs' = [fs EXCEPT ![WriterPath] =
                          RegularFile(now, write_at(fs[WriterPath].content, writer.written,
                                                    writer.body[writer.written + 1]))]
            /\ writer' = [writer EXCEPT !.written = writer.written + 1]
    /\ UNCHANGED <<cacheDir, now, last, obs, NotStep>>

\* lines 38-40: the body is copied, Ok(path)
WReturn ==
    /\ writer.pc = "copy"
    /\ writer.written = Len(writer.body)
    /\ writer' = Returned(Ok(WriterPath))
    /\ UNCHANGED <<fs, cacheDir, now, last, obs, NotStep>>

\* Another caller's is_valid on the path.
OtherIsValid ==
    /\ obs' = [op |-> "is_valid", res |-> is_valid(fs, now, WriterPath), http |-> 0,
               partial |-> HalfWritten]
    /\ UNCHANGED <<fs, cacheDir, now, last, writer, NotStep>>

\* Another caller's cache_get for the same URL.
OtherCacheGet(e) ==
    LET o == cache_get(fs, cacheDir, now, WriterUrl, e)
    IN /\ fs' = o.fs
       /\ cacheDir' = o.dir
       /\ obs' = [op |-> "cache_get", res |-> o.res, http |-> o.http,
                  partial |-> HalfWritten]
       /\ UNCHANGED <<now, last, writer, NotStep>>

NextStep ==
    \/ \E mkdir \in BOOLEAN : WCheck(mkdir)
    \/ \E http \in HttpOutcomes : WGet(http)
    \/ \E create \in BOOLEAN : WCreate(create)
    \/ \E fail \in BOOLEAN : WCopy(fail)
    \/ WReturn
    \/ OtherIsValid
    \/ \E e \in CacheEnvs : OtherCacheGet(e)
    \/ Tick

(***************************************************************************)
(* Translated<T> (src/src/tools/message.rs): a BTreeMap from language to   *)
(* content and the key of the default language.                            *)
(***************************************************************************)
MaxPairs == 2

Langs == {"", "fr", "de"}
Contents == {1, 2}

\* U::default(), the content no pair carries
U_default == 0

\* BTreeMap::new, BTreeMap::insert (a key already there gets the new value)
\* and BTreeMap::get
BTreeMap_new == [k \in {} |-> U_default]
BTreeMap_insert(map, k, v) ==
    [x \in DOMAIN map \cup {k} |-> IF x = k THEN v ELSE map[x]]
BTreeMap_get(map, k) == IF k \in DOMAIN map THEN Some(map[k]) ELSE None

\* collect() into a BTreeMap: the pairs inserted in the order they come
RECURSIVE collect(_, _)
collect(pairs, map) ==
    IF Len(pairs) = 0 THEN map
    ELSE collect(Tail(pairs), BTreeMap_insert(map, Head(pairs)[1], Head(pairs)[2]))

\* from_iter without the entry for the empty sequence
from_iter_no_fallback(pairs) ==
    [contents |-> collect(pairs, BTreeMap_new),
     default |-> IF Len(pairs) > 0 THEN pairs[1][1] ELSE ""]

\* FromIterator<(S, T)> for Translated<U>: default is the language of the
\* first pair (get_or_insert keeps the first); with no pair at all, "" is
\* inserted with U::default() and is the default
from_iter(pairs) ==
    LET contents == collect(pairs, BTreeMap_new)
    IN IF Len(pairs) > 0
       THEN [contents |-> contents, default |-> pairs[1][1]]
       ELSE [contents |-> BTreeMap_insert(contents, "", U_default), default |-> ""]

\* Default for Translated<T>
Translated_default ==
    [contents |-> collect(<<<<"", U_default>>>>, BTreeMap_new), default |-> ""]

\* Translated::default: contents.get(&self.default).unwrap()
default(t) ==
    LET e == BTreeMap_get(t.contents, t.default)
    IN IF e.some THEN Ok(e.v) ELSE Err("panic: unwrap on None")

\* Translated::get
get(t, key) == BTreeMap_get(t.contents, key)

\* Translated::get_or_default: self.get(key).unwrap_or_else(|| self.default())
get_or_default(t, key) ==
    LET e == get(t, key)
    IN IF e.some THEN Ok(e.v) ELSE default(t)

PairSeqs == SeqsUpTo(Langs \X Contents, MaxPairs)

NoTranslated == [contents |-> BTreeMap_new, default |-> ""]
NoPairs == [how |-> "none", pairs |-> <<>>]
NoLookup == [op |-> "none", key |-> "", res |-> Ok(U_default)]

InitTranslated ==
    /\ trIn = NoPairs
    /\ tr = NoTranslated
    /\ trGot = NoLookup

IdleTranslated == InitTranslated

\* pairs.into_iter().collect::<Translated<_>>()
FromIter(pairs) ==
    /\ trIn' = [how |-> "from_iter", pairs |-> pairs]
    /\ tr' = from_iter(pairs)
    /\ trGot' = NoLookup
    /\ UNCHANGED NotTranslated

\* Translated::default() of the Default trait
MakeDefault ==
    /\ trIn' = [how |-> "default", pairs |-> <<>>]
    /\ tr' = Translated_default
    /\ trGot' = NoLookup
    /\ UNCHANGED NotTranslated

\* translated.default()
GetDefault ==
    /\ trIn.how # "none"
    /\ trGot' = [op |-> "default", key |-> tr.default, res |-> default(tr)]
    /\ UNCHANGED <<trIn, tr, NotTranslated>>

\* translated.get_or_default(key)
GetOrDefault(key) ==
    /\ trIn.how # "none"
    /\ trGot' = [op |-> "get_or_default", key |-> key, res |-> get_or_default(tr, key)]
    /\ UNCHANGED <<trIn, tr, NotTranslated>>

NextTranslated ==
    \/ \E pairs \in PairSeqs : FromIter(pairs)
    \/ MakeDefault
    \/ GetDefault
    \/ \E key \in Langs \cup {"it"} : GetOrDefault(key)

(***************************************************************************)
(* The specifications: one per component, the others standing idle.        *)
(***************************************************************************)
IdleCache ==
    /\ now = 0
    /\ cacheDir = FALSE
    /\ fs = [p \in Paths |-> Missing]
    /\ last = NoCall

IdleRest == IdleShare /\ IdleStep /\ IdleTranslated

Init == InitCache /\ IdleDate /\ IdleEnum /\ IdleDecode /\ IdleLoad /\ IdleRest
Next == NextCache
Spec == Init /\ [][Next]_vars

InitD == InitDate /\ IdleCache /\ IdleEnum /\ IdleDecode /\ IdleLoad /\ IdleRest
SpecDate == InitD /\ [][NextDate]_vars

InitE == InitEnum /\ IdleCache /\ IdleDate /\ IdleDecode /\ IdleLoad /\ IdleRest
SpecEnum == InitE /\ [][NextEnum]_vars

InitR == InitDecode /\ IdleCache /\ IdleDate /\ IdleEnum /\ IdleLoad /\ IdleRest
SpecDecode == InitR /\ [][NextDecode]_vars

InitL == InitLoad /\ IdleDate /\ IdleEnum /\ IdleDecode /\ IdleRest
SpecLoad == InitL /\ [][NextLoad]_vars

InitS == InitStore /\ it = NoIter /\ IdleDate /\ IdleEnum /\ IdleStep /\ IdleTranslated
SpecStore == InitS /\ [][NextStore]_vars

InitW == InitStep /\ IdleDate /\ IdleEnum /\ IdleDecode /\ IdleLoad /\ IdleShare
             /\ IdleTranslated
SpecStep == InitW /\ [][NextStep]_vars

InitT == InitTranslated /\ IdleCache /\ IdleDate /\ IdleEnum /\ IdleDecode /\ IdleLoad
             /\ IdleShare /\ IdleStep
SpecTranslated == InitT /\ [][NextTranslated]_vars

(***************************************************************************)
(* Claims about the download cache, checked under Spec.                    *)
(***************************************************************************)
LastPath == cache_path(last.url)

\* The file the last call found at the cache path was a regular file younger
\* than the validity window, stated on the raw file state.
FreshBefore ==
    /\ last.pre.kind = "file"
    /\ last.at < last.pre.mtime + default_validity

\* C1: after a cache_get that failed while creating or writing the cache
\* file, no half-written file at the cache path is reported valid (so none is
\* returned as a cache hit).
C1_NoPartialFileLeft ==
    (/\ last.op = "cache_get"
     /\ last.fail \in {"create", "copy"}
     /\ fs[LastPath].kind = "file"
     /\ fs[LastPath].content # last.body)
        => is_valid(fs, now, LastPath) # Ok(TRUE)

\* C2: is_valid returns Ok(true) exactly when the path is a regular file and
\* now < mtime + validity, and Ok(false), never an error, otherwise (a missing
\* path and a directory included).
C2_IsValidIff ==
    last.op = "is_valid" => last.res = Ok(FreshBefore)

\* C2 witness: is_valid was called on a regular file exactly one validity
\* window old and answered false.
C2_Witness ==
    /\ last.op = "is_valid"
    /\ last.pre.kind = "file"
    /\ last.at = last.pre.mtime + default_validity
    /\ last.res = Ok(FALSE)

\* C3: a cache_get made while the cached file is valid returns the cache path
\* and performs no http_get and no write to the file.
C3_HitNoNetwork ==
    (last.op = "cache_get" /\ FreshBefore)
        => /\ last.res = Ok(LastPath)
           /\ last.http = 0
           /\ fs[LastPath] = last.pre

\* C3 witness: a cache_get hit a file that an earlier cache_get had
\* downloaded, later but within the window.
C3_Witness ==
    /\ last.op = "cache_get"
    /\ FreshBefore
    /\ last.at > last.pre.mtime
    /\ last.pre.content \in Bodies
    /\ last.http = 0

\* C4: a cache_get on a missing or stale file whose GET, create and copy all
\* succeed performs one http_get, leaves exactly the response body as the
\* file's content, returns the cache path, and the file is valid right after.
C4_MissDownloadsAndReplaces ==
    (last.op = "cache_get" /\ ~FreshBefore /\ last.fail = "none")
        => /\ last.http = 1
           /\ last.res = Ok(LastPath)
           /\ fs[LastPath].kind = "file"
           /\ fs[LastPath].content = last.body
           /\ is_valid(fs, last.at, LastPath) = Ok(TRUE)

\* C4 witness: a stale copy longer than the response body was replaced.
C4_Witness ==
    /\ last.op = "cache_get"
    /\ last.pre.kind = "file"
    /\ last.at >= last.pre.mtime + default_validity
    /\ last.fail = "none"
    /\ Len(last.pre.content) > Len(last.body)
    /\ fs[LastPath].content = last.body

\* C19: a cache_get that finds the file missing or stale and whose http_get
\* fails returns that error and leaves the cache path as it found it (a
\* stale copy with its content and modification time, a missing file
\* missing); it does not return the stale path.
C19_HttpErrorLeavesFile ==
    (last.op = "cache_get" /\ ~FreshBefore /\ last.fail = "http")
        => /\ last.res = Err("transport")
           /\ last.http = 1
           /\ fs[LastPath] = last.pre

\* C19 witness: the request failed over a stale copy, which is still there.
C19_Witness ==
    /\ last.op = "cache_get"
    /\ last.fail = "http"
    /\ last.pre.kind = "file"
    /\ last.at >= last.pre.mtime + default_validity
    /\ fs[LastPath] = last.pre
    /\ ~last.res.ok

(***************************************************************************)
(* Claims about the date codec, checked under SpecDate.                    *)
(***************************************************************************)
\* The zero-padded form DD.MM.YYYY: ten characters, digits but for the two
\* dots.
IsPaddedForm(s) ==
    /\ Len(s) = 10
    /\ \A i \in {1, 2, 4, 5, 7, 8, 9, 10} : s[i] \in Digits
    /\ s[3] = "." /\ s[6] = "."

\* C10: every accepted date string is reproduced character for character by
\* formatting the parsed date, and every string not in zero-padded DD.MM.YYYY
\* form is rejected.
C10_DateRoundTripStrict ==
    /\ datePc = "formatted" => dateOut = dateIn
    /\ (datePc # "input" /\ dateParsed.ok) => IsPaddedForm(dateIn)

(***************************************************************************)
(* Claims about the enumerated fields, checked under SpecEnum.             *)
(***************************************************************************)
\* The integers each enumerated field is to accept.
WireCodes(kind) ==
    CASE kind = "MunicipalityMode" -> {11, 12, 13}
      [] kind = "DistrictMode" -> {15, 16, 17}
      [] kind = "AdmissionMode" -> {20, 21, 22, 23, 24, 26, 27}
      [] kind = "AbolitionMode" -> {22, 23, 24, 26, 27, 29, 30}
      [] kind = "Status" -> {0, 1}

\* C9: an enumerated field decodes the integer exactly when it is one of the
\* field's fixed codes, to the variant carrying that very code, and answers
\* every other integer with an error.
C9_EnumsClosed ==
    enumRes # NoEnum =>
        /\ enumRes.ok <=> enumCode \in WireCodes(enumKind)
        /\ enumRes.ok => <<enumRes.val, enumCode>> \in EnumOf(enumKind)
        /\ ~enumRes.ok => enumRes.err.kind \in {"ParseInt", "InvalidValue"}

\* C9 witness: 20, an admission mode, was rejected as an abolition mode.
C9_Witness ==
    /\ enumKind = "AbolitionMode"
    /\ enumCode = 20
    /\ enumRes # NoEnum
    /\ ~enumRes.ok

(***************************************************************************)
(* Claims about row decoding, checked under SpecDecode.                    *)
(***************************************************************************)
\* A row that is well-formed on its own: the declared number of fields, each
\* parsing as its type.
RowValid(T, row) == Len(row) = NFields(T) /\ deserialize_record(T, row).ok

NoEmptyLine == \A l \in 1..Len(dsRaw) : Len(dsRaw[l]) > 0

\* C6: in every successfully decoded District or Municipality the abolition
\* number, mode and date are all three present or all three absent.
C6_AbolitionAllOrNone ==
    dsType \in {"District", "Municipality"} =>
        \A k \in 1..Len(it.out) :
            it.out[k].res.ok =>
                LET rec == it.out[k].res.val
                    n == Field(dsType, rec, "abolition_number").some
                    m == Field(dsType, rec, "abolition_mode").some
                    d == Field(dsType, rec, "abolition_date").some
                IN (n /\ m /\ d) \/ (~n /\ ~m /\ ~d)

\* C7: an exhausted iterator has yielded one item per row, in row order:
\* the decoded record for every valid row and an error for every row that
\* does not decode, wherever the malformed rows stand (the first row
\* included).
C7_OneItemPerRow ==
    (it.done /\ NoEmptyLine) =>
        /\ Len(it.out) = Len(dsRaw)
        /\ \A k \in 1..Len(it.out) :
              /\ it.out[k].line = k
              /\ RowValid(dsType, dsRaw[k])
                    => it.out[k].res = deserialize_record(dsType, dsRaw[k])
              /\ ~deserialize_record(dsType, dsRaw[k]).ok => ~it.out[k].res.ok

\* C8: a row whose number of fields differs from the number declared for
\* the record type never yields a decoded record.
C8_WrongCountIsError ==
    \A k \in 1..Len(it.out) :
        Len(dsRaw[it.out[k].line]) # NFields(dsType) => ~it.out[k].res.ok

\* C14: a decoded District or Municipality has abolition() = None exactly
\* when its three abolition fields are all absent, abolition() carries the
\* record's abolition number, mode and date when it has them, and
\* admission() carries its admission number, mode and date.
C14_ActiveIffNoAbolition ==
    dsType \in {"District", "Municipality"} =>
        \A k \in 1..Len(it.out) :
            it.out[k].res.ok =>
                LET rec == it.out[k].res.val
                    n == Field(dsType, rec, "abolition_number")
                    m == Field(dsType, rec, "abolition_mode")
                    d == Field(dsType, rec, "abolition_date")
                IN /\ abolition(dsType, rec) = None <=> (~n.some /\ ~m.some /\ ~d.some)
                   /\ (n.some /\ m.some /\ d.some)
                         => abolition(dsType, rec) = Some(Mutation(n.v, m.v, d.v))
                   /\ admission(dsType, rec).number = Field(dsType, rec, "admission_number")
                   /\ admission(dsType, rec).mode = Field(dsType, rec, "admission_mode")
                   /\ admission(dsType, rec).date = Field(dsType, rec, "admission_date")

(***************************************************************************)
(* Claims about load, checked under SpecLoad.                              *)
(***************************************************************************)
\* The member names of the archive in the cache file.
CachedNames == fs[cache_path(DataUrl)].content[1].names

\* The code is the third underscore-separated segment of some member that
\* carries the fixed prefix, segment and suffix.
HasMember(code) == \E n \in CachedNames : entity_code(n) = Some(<<code>>)

EntityWord(code) ==
    CASE code = "KT" -> "cantons"
      [] code = "BEZ" -> "districts"
      [] code = "GDE" -> "municipalities"

\* The message names the code, by itself or by its entity type.
NamesCode(msg, code) ==
    \E i \in 1..Len(msg) : msg[i] = code \/ msg[i] = EntityWord(code)

\* C5: a load that fails for want of a member of KT, BEZ or GDE returns a
\* "missing member" error that names the absent code, and no lookup fails
\* for a code that has a member.
C5_MissingMemberNamesCode ==
    (~loadRes.ok /\ loadRes.err.stage = "lookup")
        => /\ ~HasMember(loadRes.err.code)
           /\ NamesCode(loadRes.err.msg, loadRes.err.code)

\* The Dataset was read from a member of the cached archive that the
\* resolver gives the code, and owns that member's transcoded text.
ReadFrom(dataset, code) ==
    /\ DOMAIN dataset = {"member", "raw"}
    /\ dataset.member \in CachedNames
    /\ entity_code(dataset.member) = Some(<<code>>)
    /\ dataset.raw = transcode(fs[cache_path(DataUrl)].content[1].data[dataset.member])

\* C12: load returns either all three Datasets, each read from its member
\* of the archive in the cache file, or an error and no Dataset at all,
\* whichever step fails and whatever was read before it.
C12_LoadAllOrNothing ==
    loadRes # NoLoad =>
        IF loadRes.ok
        THEN /\ DOMAIN loadRes = {"ok", "val"}
             /\ DOMAIN loadRes.val = {"cantons", "districts", "municipalities"}
             /\ ReadFrom(loadRes.val.cantons, "KT")
             /\ ReadFrom(loadRes.val.districts, "BEZ")
             /\ ReadFrom(loadRes.val.municipalities, "GDE")
        ELSE /\ DOMAIN loadRes = {"ok", "err"}
             /\ loadRes.err.stage \in {"download", "open", "zip", "lookup", "read"}

\* C12 witness: a load failed on the municipalities member after the
\* cantons and the districts had been found and read.
C12_Witness ==
    /\ ~loadRes.ok
    /\ loadRes.err.stage \in {"lookup", "read"}
    /\ loadRes.err.code = "GDE"
    /\ HasMember("KT") /\ HasMember("BEZ")

\* A member name of the form {TXT_FSO_ID}/1.2/{free text}_{CODE}.txt, and
\* the code it ends in: the segment after its last underscore.
ConventionForm(name) ==
    /\ Len(name) >= 6
    /\ name[1] = TXT_FSO_ID
    /\ name[2] = "/1.2/"
    /\ name[Len(name)] = ".txt"
    /\ name[Len(name) - 2] = "_"
    /\ name[Len(name) - 1] # "_"
LastSegment(name) == name[Len(name) - 1]

\* C13: a member whose name has the form {TXT_FSO_ID}/1.2/{free text}_{CODE}.txt
\* is found under CODE, however many underscores the free text holds (so no
\* lookup of a code fails while such a member is in the archive), and a
\* Dataset is only ever read from a member of that form ending in its code.
C13_ResolverLastSegment ==
    /\ (~loadRes.ok /\ loadRes.err.stage = "lookup")
          => ~\E n \in CachedNames : ConventionForm(n) /\ LastSegment(n) = loadRes.err.code
    /\ loadRes.ok
          => \A T \in RecordTypes :
                ConventionForm(DatasetOf(loadRes.val, T).member)

\* the bytes of the cached archive's member that the cantons were read from
CantonsBytes == fs[cache_path(DataUrl)].content[1].data[loadRes.val.cantons.member]

\* C17: no byte of a member makes load fail: a load fails to read a member
\* only when the archive fails to hand it over, and the text read has one
\* character per byte, the replacement character exactly where the byte has
\* no character in ISO-8859-3.
C17_TranscodingTotal ==
    /\ (~loadRes.ok /\ loadRes.err.stage = "read") => loadRes.err.msg = <<"zip">>
    /\ loadRes.ok =>
          /\ Len(loadRes.val.cantons.raw) = Len(CantonsBytes)
          /\ \A i \in 1..Len(CantonsBytes) :
                /\ IsScalar(loadRes.val.cantons.raw[i])
                /\ loadRes.val.cantons.raw[i] = REPLACEMENT <=> CantonsBytes[i] \in Unassigned

\* C17 witness: a load succeeded on a cantons member whose bytes are 0xFF
\* after the unassigned 0xA5.
C17_Witness ==
    /\ loadRes.ok
    /\ CantonsBytes = <<165, 255>>
    /\ loadRes.val.cantons.raw = <<REPLACEMENT, 729>>

(***************************************************************************)
(* Claims about a loaded store and its iterators, checked under SpecStore. *)
(***************************************************************************)
\* the iterator after n calls of next() on a fresh one
RECURSIVE Replay(_, _, _)
Replay(T, raw, n) ==
    IF n = 0 THEN into_iter ELSE iter_next(T, raw, Replay(T, raw, n - 1))

\* the calls of next() an iterator has answered
Calls(i) == Len(i.out) + (IF i.done THEN 1 ELSE 0)

\* Every iterator stands where a fresh one stands after as many calls of
\* next(), with the same items in the same order.
IteratorsRepeat ==
    \A c \in Consumers :
        its[c].active => its[c] = Replay(dsType, dsRaw, Calls(its[c]))

\* A step that hands out or advances an iterator moves that iterator alone
\* and leaves the Dataset's text, the cache file and the count of requests
\* as they are.
IteratorStepAlone ==
    (\E c \in Consumers : its'[c] # its[c] /\ its'[c].active)
        => /\ Cardinality({c \in Consumers : its'[c] # its[c]}) = 1
           /\ dsRaw' = dsRaw
           /\ dsType' = dsType
           /\ fs' = fs
           /\ last' = last
           /\ loadRes' = loadRes

\* C11: every iterator asked of a Dataset starts at the first row and yields
\* the same items in the same order as any other; advancing one, in any
\* interleaving, changes neither the Dataset's text nor the other iterators,
\* and reads neither the archive nor the cache file.
C11_IteratorsIndependent == []IteratorsRepeat /\ [][IteratorStepAlone]_vars

\* C11 witness: two consumers over the three-row text, one exhausted with
\* three items while the other has read one row.
C11_Witness ==
    /\ its[1].active /\ its[2].active
    /\ its[1].done /\ Len(its[1].out) = 3
    /\ Len(its[2].out) = 1 /\ its[2].pos = 2
    /\ its[2].out[1] = its[1].out[1]

\* the archive of one cantons, one districts and one municipalities row
ScenarioBody == StoreBody(<<MunicipalityRow>>)

\* the items an exhausted iterator of a consumer has yielded
Exhausted(c) == its[c].active /\ its[c].done

\* C15: with the archive of one KT, one BEZ and one GDE row in the cache
\* file, load does not fail on the archive or its members, and iterating a
\* Dataset of the store to the end yields exactly one record: a Canton with
\* id 1, a District or a Municipality with no abolition, the Municipality's
\* admission() reporting FirstRegistration on 2000-01-01.
C15_ScenarioLoads ==
    server = ScenarioBody =>
        /\ (~loadRes.ok /\ fs[cache_path(DataUrl)].content = ScenarioBody)
              => loadRes.err.stage \in {"none", "download", "open", "read"}
        /\ (~loadRes.ok /\ loadRes.err.stage = "read") => loadRes.err.msg = <<"zip">>
        /\ \A c \in Consumers :
              Exhausted(c) =>
                  /\ Len(its[c].out) = 1
                  /\ its[c].out[1].res.ok
                  /\ LET rec == its[c].out[1].res.val
                     IN CASE dsType = "Canton" -> Field(dsType, rec, "id") = 1
                          [] dsType = "District" ->
                                /\ Field(dsType, rec, "hist_id") = 100
                                /\ Field(dsType, rec, "entry_mode") = "District"
                                /\ abolition(dsType, rec) = None
                          [] dsType = "Municipality" ->
                                /\ Field(dsType, rec, "hist_id") = 1000
                                /\ Field(dsType, rec, "district_hist_id") = 100
                                /\ Field(dsType, rec, "status") = "Final"
                                /\ abolition(dsType, rec) = None
                                /\ admission(dsType, rec).number = 1
                                /\ admission(dsType, rec).mode = "FirstRegistration"
                                /\ admission(dsType, rec).date =
                                      [year |-> 2000, month |-> 1, day |-> 1]

\* C15 witness: the municipalities of the loaded scenario were iterated to
\* the end.
C15_Witness ==
    /\ server = ScenarioBody
    /\ loadRes.ok
    /\ dsType = "Municipality"
    /\ Exhausted(1)
    /\ Len(its[1].out) = 1

\* the municipalities member of three rows, the third with entry mode 99
ThirdRowBad == <<MunicipalityRow, SecondRow, BadModeRow>>

C18_NoHalfWrittenHit ==
    (obs.op # "none" /\ obs.partial)
        => /\ obs.res # Ok(TRUE)
           /\ ~(obs.op = "cache_get" /\ obs.http = 0 /\ obs.res = Ok(WriterPath))

(***************************************************************************)
(* Claims about Translated, checked under SpecTranslated.                  *)
(***************************************************************************)
\* the contents of the pairs given for a language
Given(lang) == {trIn.pairs[i][2] : i \in {j \in 1..Len(trIn.pairs) : trIn.pairs[j][1] = lang}}

\* C20: a Translated, from Default or collected from any sequence of pairs,
\* holds its default key in its contents; the default key is the language of
\* the first pair, or "" with U::default() when there is no pair; default()
\* and get_or_default never panic, and get_or_default(k) answers the entry
\* of k when k is there and the default entry otherwise.
C20_DefaultKeyPresent ==
    trIn.how # "none" =>
        /\ tr.default \in DOMAIN tr.contents
        /\ Len(trIn.pairs) > 0 =>
              /\ tr.default = trIn.pairs[1][1]
              /\ DOMAIN tr.contents = {trIn.pairs[i][1] : i \in 1..Len(trIn.pairs)}
              /\ \A k \in DOMAIN tr.contents : tr.contents[k] \in Given(k)
        /\ Len(trIn.pairs) = 0 =>
              /\ tr.default = ""
              /\ DOMAIN tr.contents = {""}
              /\ tr.contents[""] = U_default
        /\ trGot.op # "none" => trGot.res.ok
        /\ trGot.op = "default" => trGot.res = Ok(tr.contents[tr.default])
        /\ trGot.op = "get_or_default" =>
              trGot.res = Ok(IF trGot.key \in DOMAIN tr.contents
                             THEN tr.contents[trGot.key]
                             ELSE tr.contents[tr.default])

\* C20 witness: a language absent from a Translated collected from two pairs
\* of one language was looked up and answered with the default entry.
C20_Witness ==
    /\ trIn.how = "from_iter"
    /\ Len(trIn.pairs) = 2
    /\ trIn.pairs[1][1] = trIn.pairs[2][1]
    /\ trIn.pairs[1][2] # trIn.pairs[2][2]
    /\ trGot.op = "get_or_default"
    /\ trGot.key \notin DOMAIN tr.contents
    /\ trGot.res = Ok(trIn.pairs[2][2])

====
